---------------------------- MODULE Spec2Model ----------------------------
(***************************************************************************)
(* Model of the printer service.                                           *)
(*                                                                         *)
(* Part 1 is the native spool session, printer.PrintRawESCPOSWindows       *)
(* (src/printer/printer_windows.go), specification Spec.                   *)
(*                                                                         *)
(* One invocation of the function is a run of the state machine below:     *)
(* every Win32 spooler call is one action, its return value is chosen by   *)
(* the environment (0 = failure, non-zero = success), and the Go `defer`   *)
(* statements are a LIFO stack that is unwound after a `return`.           *)
(* Every spooler call is appended to `calls`, the log a fake backend       *)
(* would record.                                                           *)
(*                                                                         *)
(* Part 2 is the service around it (src/websocket/websocket.go): the       *)
(* per-connection message handlers, the dispatcher PrintText/PrintEscPos   *)
(* with its per-platform backends, and the printer directory               *)
(* DetectPrinters.  ServiceSpec runs one connection on any platform;       *)
(* ConcurrentSpec runs two connections that print at the same time.        *)
(* External commands (lp, lpstat, powershell, notepad, cmd) are the        *)
(* environment: their outcome is chosen nondeterministically and every     *)
(* execution is logged in `execs`.                                         *)
(***************************************************************************)
EXTENDS Integers, Sequences, FiniteSets, TLC

\* ------------------------------------------------------------------ bounds
\* longest payload handed to the session
MaxLen == 2

\* ------------------------------------------------------------------ inputs
\* payload bytes: ESC (0x1B) and '@' (0x40), the ESC/POS initialise sequence
Bytes == {27, 64}

\* printer names as sequences of Unicode code points:
\* "RP", "HP", a name with an embedded NUL, a name outside the BMP
PrinterNames == { <<82, 80>>, <<72, 80>>, <<82, 0, 80>>, <<128424>> }

\* handles the spooler may hand out (never 0)
Handles == {1, 2}

\* return values of a spooler call: 0 is failure
Rets == {0, 1}

RECURSIVE SeqsUpTo(_)
SeqsUpTo(n) ==
  IF n = 0 THEN { <<>> }
  ELSE LET S == SeqsUpTo(n - 1)
       IN  S \cup { Append(s, b) : s \in { t \in S : Len(t) = n - 1 }, b \in Bytes }

Payloads == SeqsUpTo(MaxLen)

\* ---------------------------------------------------------- pure functions
\* UTF-16 code units of one code point (surrogate pair above the BMP)
UTF16Units(r) ==
  IF r < 65536 THEN <<r>>
  ELSE << 55296 + ((r - 65536) \div 1024), 56320 + ((r - 65536) % 1024) >>

RECURSIVE UTF16Encode(_)
UTF16Encode(s) ==
  IF s = <<>> THEN <<>> ELSE UTF16Units(Head(s)) \o UTF16Encode(Tail(s))

\* syscall.UTF16FromString: error on an embedded NUL, else the NUL-terminated
\* UTF-16 encoding
stringToUTF16Ptr(s) ==
  IF \E i \in DOMAIN s : s[i] = 0
  THEN [ok |-> FALSE, units |-> <<>>]
  ELSE [ok |-> TRUE,  units |-> UTF16Encode(s) \o <<0>>]

\* the data type declared in DOC_INFO_1W
dataType_Text == "TEXT"
dataType == "RAW"

\* a `defer` statement pushes on the function's deferred stack (LIFO)
PushDefer_FIFO(stack, f) == Append(stack, f)
PushDefer(stack, f) == <<f>> \o stack

DeferClosePrinter_Omitted(stack) == stack
DeferClosePrinter_Twice(stack) == PushDefer(PushDefer(stack, "ClosePrinter"), "ClosePrinter")
DeferClosePrinter(stack) == PushDefer(stack, "ClosePrinter")

DeferEndDocPrinter_Omitted(stack) == stack
DeferEndDocPrinter(stack) == PushDefer(stack, "EndDocPrinter")

DeferEndPagePrinter_Omitted(stack) == stack
DeferEndPagePrinter(stack) == PushDefer(stack, "EndPagePrinter")

\* the byte-count check after a successful WritePrinter
IncompleteWrite_Skipped(written, n) == FALSE
IncompleteWrite(written, n) == written # n

\* the deferred closures discard the return value of the cleanup call and
\* the function has no named result: the value being returned is kept
AfterDeferred_Overwrite(res, f, ret) == IF ret = 0 THEN f \o " failed" ELSE res
AfterDeferred(res, f, ret) == res

\* one entry of the spooler call log
SpoolCall(op, h, name, dt, buf, written, ok) ==
  [op |-> op, h |-> h, name |-> name, dt |-> dt, buf |-> buf,
   written |-> written, ok |-> ok]

\* --------------------------------------------------------- service inputs
\* values of runtime.GOOS: the three supported hosts and one without strategy
GOOS == {"windows", "darwin", "linux", "freebsd"}
Unix == {"darwin", "linux"}
Supported == {"windows"} \cup Unix

\* connections served at the same time (one readPump goroutine each)
Conns == {1, 2}

\* printer names a client may send, and those the host has installed
JobPrinters == {"HP LaserJet Pro", "Ghost"}
Installed == {"HP LaserJet Pro"}

\* job payloads: the text "Hi" and the ESC/POS initialise sequence
Contents == { <<72, 105>>, <<27, 64>> }
JobIds == {"job-1", "job-2"}

\* the fixed temporary file names of the windows backends, in the working
\* directory shared by all connections
textTempFile == "print_temp.txt"
rawTempFile == "print_escpos_temp.bin"
TempFiles == {textTempFile, rawTempFile}
NoFile == << -1 >>

\* Go errors as records; NilErr is the nil error
Err(text, cause, output) == [text |-> text, cause |-> cause, output |-> output]
NilErr == Err("nil", "", "")

NoMsg == [type |-> "", ok |-> FALSE, printerName |-> "", content |-> <<>>, jobId |-> ""]

\* ------------------------------------------------------------------- state
VARIABLES
  pc,               \* position in PrintRawESCPOSWindows
  printerName,      \* argument
  data,             \* argument
  printerNameUTF16, \* local: converted name
  hPrinter,         \* local: printer handle, 0 until OpenPrinterW sets it
  docID,            \* local: job id returned by StartDocPrinterW
  bytesWritten,     \* local: out-parameter of WritePrinter
  deferred,         \* deferred calls, next to run first
  calls,            \* spooler calls made by this invocation, in order
  result            \* returned error ("nil" = success), "-" while running

VARIABLES
  goos,             \* runtime.GOOS of the host
  fs,               \* temporary files of the working directory: name -> content
  cpc,              \* per connection: position of its readPump goroutine
  msg,              \* per connection: the message being handled
  route,            \* per connection: backend function the dispatcher chose
  perr,             \* per connection: error returned by the dispatcher / detect
  execs,            \* per connection: external commands run for this message
  ndispatch,        \* per connection: dispatcher calls made for this message
  responses,        \* per connection: responses written for this message
  enumOut,          \* per connection: output of the enumeration command
  printers,         \* per connection: printers returned by DetectPrinters
  send,             \* per connection: the channel c.send (closes, queued messages)
  wpump             \* per connection: the writePump goroutine (position, writes)

spoolVars == << pc, printerName, data, printerNameUTF16, hPrinter, docID,
                bytesWritten, deferred, calls, result >>

connVars == << send, wpump >>

svcVars == << goos, fs, cpc, msg, route, perr, execs, ndispatch, responses,
              enumOut, printers, connVars >>

vars == << spoolVars, svcVars >>

\* no spool session has been started
SpoolInit ==
  /\ pc = "idle"
  /\ printerName = <<>>
  /\ data = <<>>
  /\ printerNameUTF16 = <<>>
  /\ hPrinter = 0
  /\ docID = 0
  /\ bytesWritten = 0
  /\ deferred = <<>>
  /\ calls = <<>>
  /\ result = "-"

\* every connection is upgraded: its channel is made, its writePump is
\* started and its readPump is blocked in ReadJSON; no temporary file exists
ServiceIdle ==
  /\ fs = [f \in TempFiles |-> NoFile]
  /\ cpc = [c \in Conns |-> "read"]
  /\ msg = [c \in Conns |-> NoMsg]
  /\ route = [c \in Conns |-> ""]
  /\ perr = [c \in Conns |-> NilErr]
  /\ execs = [c \in Conns |-> <<>>]
  /\ ndispatch = [c \in Conns |-> 0]
  /\ responses = [c \in Conns |-> <<>>]
  /\ enumOut = [c \in Conns |-> <<>>]
  /\ printers = [c \in Conns |-> <<>>]
  /\ send = [c \in Conns |-> [closed |-> 0, q |-> <<>>]]
  /\ wpump = [c \in Conns |-> [pc |-> "range", wrote |-> 0]]

\* the host may be any platform: the native session is compiled for windows
\* (printer_windows.go), a stub for every other one (printer_stub.go)
Init ==
  /\ SpoolInit
  /\ goos \in GOOS
  /\ ServiceIdle

\* ----------------------------------------------------------------- actions
\* a caller invokes PrintRawESCPOSWindows(name, d)
Invoke(name, d) ==
  /\ pc \in {"idle", "done"}
  /\ pc' = IF goos = "windows" THEN "check_data" ELSE "stub"
  /\ printerName' = name
  /\ data' = d
  /\ printerNameUTF16' = <<>>
  /\ hPrinter' = 0
  /\ docID' = 0
  /\ bytesWritten' = 0
  /\ deferred' = <<>>
  /\ calls' = <<>>
  /\ result' = "-"
  /\ UNCHANGED svcVars

\* printer_stub.go: on a platform other than windows the function only
\* returns an error
PrintRawESCPOSWindows_Stub ==
  /\ pc = "stub"
  /\ result' = "Win32 Print Spooler API only available on Windows"
  /\ pc' = "unwind"
  /\ UNCHANGED svcVars
  /\ UNCHANGED << printerName, data, printerNameUTF16, hPrinter, docID,
                  bytesWritten, deferred, calls >>

\* mutation of the length check: an empty payload is let through
CheckData_Skipped ==
  /\ pc = "check_data"
  /\ result' = result
  /\ pc' = "convert_name"
  /\ UNCHANGED svcVars
  /\ UNCHANGED << printerName, data, printerNameUTF16, hPrinter, docID,
                  bytesWritten, deferred, calls >>

\* if len(data) == 0 { return error }
CheckData ==
  /\ pc = "check_data"
  /\ IF Len(data) = 0
     THEN /\ result' = "no data to print"
          /\ pc' = "unwind"
     ELSE /\ result' = result
          /\ pc' = "convert_name"
  /\ UNCHANGED svcVars
  /\ UNCHANGED << printerName, data, printerNameUTF16, hPrinter, docID,
                  bytesWritten, deferred, calls >>

\* printerNameUTF16, err := stringToUTF16Ptr(printerName)
ConvertName ==
  /\ pc = "convert_name"
  /\ LET r == stringToUTF16Ptr(printerName)
     IN  IF r.ok
         THEN /\ printerNameUTF16' = r.units
              /\ result' = result
              /\ pc' = "open"
         ELSE /\ printerNameUTF16' = printerNameUTF16
              /\ result' = "failed to convert printer name to UTF-16"
              /\ pc' = "unwind"
  /\ UNCHANGED svcVars
  /\ UNCHANGED << printerName, data, hPrinter, docID, bytesWritten,
                  deferred, calls >>

\* Step 1: OpenPrinterW, then defer ClosePrinter
OpenPrinter(ret, h) ==
  /\ pc = "open"
  /\ calls' = Append(calls,
       SpoolCall("OpenPrinterW", 0, printerNameUTF16, "", <<>>, 0, ret # 0))
  /\ IF ret = 0
     THEN /\ hPrinter' = hPrinter
          /\ deferred' = deferred
          /\ result' = "OpenPrinterW failed"
          /\ pc' = "unwind"
     ELSE /\ hPrinter' = h
          /\ deferred' = DeferClosePrinter(deferred)
          /\ result' = result
          /\ pc' = "start_doc"
  /\ UNCHANGED svcVars
  /\ UNCHANGED << printerName, data, printerNameUTF16, docID, bytesWritten >>

\* mutation of Step 3: the failure of StartDocPrinterW is not checked
StartDocPrinter_Unchecked(ret) ==
  /\ pc = "start_doc"
  /\ calls' = Append(calls,
       SpoolCall("StartDocPrinterW", hPrinter, <<>>, dataType, <<>>, 0, ret # 0))
  /\ docID' = ret
  /\ deferred' = DeferEndDocPrinter(deferred)
  /\ result' = result
  /\ pc' = "start_page"
  /\ UNCHANGED svcVars
  /\ UNCHANGED << printerName, data, printerNameUTF16, hPrinter, bytesWritten >>

\* Steps 2-3: StartDocPrinterW with DOC_INFO_1W{RAW}, then defer EndDocPrinter
StartDocPrinter(ret) ==
  /\ pc = "start_doc"
  /\ calls' = Append(calls,
       SpoolCall("StartDocPrinterW", hPrinter, <<>>, dataType, <<>>, 0, ret # 0))
  /\ IF ret = 0
     THEN /\ docID' = docID
          /\ deferred' = deferred
          /\ result' = "StartDocPrinterW failed"
          /\ pc' = "unwind"
     ELSE /\ docID' = ret
          /\ deferred' = DeferEndDocPrinter(deferred)
          /\ result' = result
          /\ pc' = "start_page"
  /\ UNCHANGED svcVars
  /\ UNCHANGED << printerName, data, printerNameUTF16, hPrinter, bytesWritten >>

\* mutation of Step 4: the failure of StartPagePrinter is not checked
StartPagePrinter_Unchecked(ret) ==
  /\ pc = "start_page"
  /\ calls' = Append(calls,
       SpoolCall("StartPagePrinter", hPrinter, <<>>, "", <<>>, 0, ret # 0))
  /\ deferred' = DeferEndPagePrinter(deferred)
  /\ result' = result
  /\ pc' = "write"
  /\ UNCHANGED svcVars
  /\ UNCHANGED << printerName, data, printerNameUTF16, hPrinter, docID,
                  bytesWritten >>

\* Step 4: StartPagePrinter, then defer EndPagePrinter
StartPagePrinter(ret) ==
  /\ pc = "start_page"
  /\ calls' = Append(calls,
       SpoolCall("StartPagePrinter", hPrinter, <<>>, "", <<>>, 0, ret # 0))
  /\ IF ret = 0
     THEN /\ deferred' = deferred
          /\ result' = "StartPagePrinter failed"
          /\ pc' = "unwind"
     ELSE /\ deferred' = DeferEndPagePrinter(deferred)
          /\ result' = result
          /\ pc' = "write"
  /\ UNCHANGED svcVars
  /\ UNCHANGED << printerName, data, printerNameUTF16, hPrinter, docID,
                  bytesWritten >>

\* Step 5: WritePrinter(hPrinter, &data[0], len(data), &bytesWritten)
WritePrinter(ret, written) ==
  /\ pc = "write"
  /\ written \in 0 .. Len(data) + 1
  /\ calls' = Append(calls,
       SpoolCall("WritePrinter", hPrinter, <<>>, "", data, written, ret # 0))
  /\ bytesWritten' = written
  /\ IF ret = 0
     THEN /\ result' = "WritePrinter failed"
          /\ pc' = "unwind"
     ELSE /\ result' = result
          /\ pc' = "verify"
  /\ UNCHANGED svcVars
  /\ UNCHANGED << printerName, data, printerNameUTF16, hPrinter, docID,
                  deferred >>

\* if int(bytesWritten) != len(data) { return error }; return nil
VerifyWrite ==
  /\ pc = "verify"
  /\ result' = IF IncompleteWrite(bytesWritten, Len(data))
               THEN "incomplete write" ELSE "nil"
  /\ pc' = "unwind"
  /\ UNCHANGED svcVars
  /\ UNCHANGED << printerName, data, printerNameUTF16, hPrinter, docID,
                  bytesWritten, deferred, calls >>

\* after a return statement: run the most recently deferred call
RunDeferred(ret) ==
  /\ pc = "unwind"
  /\ deferred # <<>>
  /\ LET f == Head(deferred)
     IN  /\ calls' = Append(calls,
              SpoolCall(f, hPrinter, <<>>, "", <<>>, 0, ret # 0))
         /\ result' = AfterDeferred(result, f, ret)
  /\ deferred' = Tail(deferred)
  /\ UNCHANGED svcVars
  /\ UNCHANGED << pc, printerName, data, printerNameUTF16, hPrinter, docID,
                  bytesWritten >>

\* no deferred call left: control is back at the caller
Return ==
  /\ pc = "unwind"
  /\ deferred = <<>>
  /\ pc' = "done"
  /\ UNCHANGED svcVars
  /\ UNCHANGED << printerName, data, printerNameUTF16, hPrinter, docID,
                  bytesWritten, deferred, calls, result >>

Next ==
  \/ \E name \in PrinterNames, d \in Payloads : Invoke(name, d)
  \/ PrintRawESCPOSWindows_Stub
  \/ CheckData
  \/ ConvertName
  \/ \E ret \in Rets, h \in Handles : OpenPrinter(ret, h)
  \/ \E ret \in Rets : StartDocPrinter(ret)
  \/ \E ret \in Rets : StartPagePrinter(ret)
  \/ \E ret \in Rets, written \in 0 .. MaxLen + 2 : WritePrinter(ret, written)
  \/ VerifyWrite
  \/ \E ret \in Rets : RunDeferred(ret)
  \/ Return

Spec == Init /\ [][Next]_vars


\* ------------------------------------------------- reading the call log
Forward == {"OpenPrinterW", "StartDocPrinterW", "StartPagePrinter", "WritePrinter"}
Cleanup == {"EndPagePrinter", "EndDocPrinter", "ClosePrinter"}

Made(op) == { i \in DOMAIN calls : calls[i].op = op }
Count(op) == Cardinality(Made(op))
Succeeded(op) == \E i \in Made(op) : calls[i].ok
FailedCall(op) == \E i \in Made(op) : ~calls[i].ok
Ops == [ i \in DOMAIN calls |-> calls[i].op ]

\* a WritePrinter call that reported success with a byte count other than
\* the buffer length
PartialWrite == \E i \in Made("WritePrinter") :
                  calls[i].ok /\ calls[i].written # Len(calls[i].buf)

\* the error message that belongs to a failing forward call of the log
ErrorOf(i) ==
  IF ~calls[i].ok THEN calls[i].op \o " failed" ELSE "incomplete write"

\* forward calls of the log that failed, the byte-count check included
Failures == { i \in DOMAIN calls :
                /\ calls[i].op \in Forward
                /\ \/ ~calls[i].ok
                   \/ calls[i].op = "WritePrinter"
                      /\ calls[i].written # Len(calls[i].buf) }

FirstFailure == CHOOSE i \in Failures : \A j \in Failures : i <= j

Returned == pc = "done"

\* ------------------------------------------------------------------ claims

\* C1: in every run in which OpenPrinterW succeeds, ClosePrinter is called
\* exactly once before the function returns, on the handle that was opened,
\* whichever exit path is taken; it is never called twice.
C1_CloseExactlyOnce ==
  /\ Count("ClosePrinter") <= 1
  /\ (Returned /\ Succeeded("OpenPrinterW")) =>
        /\ Count("ClosePrinter") = 1
        /\ \A i \in Made("ClosePrinter") : calls[i].h = hPrinter /\ hPrinter # 0

\* C1 witness: the session returned after StartDocPrinterW failed, and the
\* handle was closed once
C1_Witness ==
  /\ Returned
  /\ Succeeded("OpenPrinterW")
  /\ FailedCall("StartDocPrinterW")
  /\ Count("ClosePrinter") = 1

\* C2: once StartDocPrinterW has succeeded, EndDocPrinter is called exactly
\* once before return (also when StartPagePrinter or WritePrinter fail or the
\* write is partial); when StartDocPrinterW failed or was never reached,
\* EndDocPrinter is not called.
C2_EndDocExactlyOnce ==
  /\ Count("EndDocPrinter") <= 1
  /\ ~Succeeded("StartDocPrinterW") => Count("EndDocPrinter") = 0
  /\ (Returned /\ Succeeded("StartDocPrinterW")) => Count("EndDocPrinter") = 1

\* C2 witness: returned after StartPagePrinter failed, document ended once
C2_Witness ==
  /\ Returned
  /\ Succeeded("StartDocPrinterW")
  /\ FailedCall("StartPagePrinter")
  /\ Count("EndDocPrinter") = 1

\* C3: once StartPagePrinter has succeeded, EndPagePrinter is called exactly
\* once before return (also when the write fails or is partial); when
\* StartPagePrinter failed or was never reached, EndPagePrinter is not called.
C3_EndPageExactlyOnce ==
  /\ Count("EndPagePrinter") <= 1
  /\ ~Succeeded("StartPagePrinter") => Count("EndPagePrinter") = 0
  /\ (Returned /\ Succeeded("StartPagePrinter")) => Count("EndPagePrinter") = 1

\* C3 witness: returned after WritePrinter failed, page ended once
C3_Witness ==
  /\ Returned
  /\ Succeeded("StartPagePrinter")
  /\ FailedCall("WritePrinter")
  /\ Count("EndPagePrinter") = 1

\* C4: the error returned is the first failure met among OpenPrinterW,
\* StartDocPrinterW, StartPagePrinter, WritePrinter and the byte-count check;
\* a failure of EndPagePrinter, EndDocPrinter or ClosePrinter during the
\* unwind never replaces, alters or suppresses it.
C4_FirstFailureReturned ==
  (pc \in {"unwind", "done"} /\ Failures # {}) =>
      result = ErrorOf(FirstFailure)

\* C4 witness: WritePrinter failed, then EndPagePrinter and ClosePrinter
\* failed during the unwind, and the write failure was returned
C4_Witness ==
  /\ Returned
  /\ FailedCall("WritePrinter")
  /\ FailedCall("EndPagePrinter")
  /\ FailedCall("ClosePrinter")
  /\ result = "WritePrinter failed"

\* C5: when WritePrinter reports success with a byte count other than the
\* buffer length, the session returns the incomplete-write failure, not
\* success, and EndPagePrinter, EndDocPrinter and ClosePrinter have been
\* called, in that order, when it returns.
C5_PartialWriteFails ==
  (Returned /\ PartialWrite) =>
      /\ result = "incomplete write"
      /\ Len(Ops) = 7
      /\ SubSeq(Ops, 5, 7) = <<"EndPagePrinter", "EndDocPrinter", "ClosePrinter">>

\* C5 witness: a two-byte payload of which the spooler accepted one byte
C5_Witness ==
  /\ Returned
  /\ Len(data) = 2
  /\ \E i \in Made("WritePrinter") : calls[i].ok /\ calls[i].written = 1
  /\ result = "incomplete write"
  /\ Count("ClosePrinter") = 1

\* C6: when StartPagePrinter fails after a successful StartDocPrinterW, the
\* session calls neither WritePrinter nor EndPagePrinter, calls EndDocPrinter
\* and then ClosePrinter, each once, and returns the StartPagePrinter failure.
C6_BeginPageFailure ==
  /\ FailedCall("StartPagePrinter") =>
        Count("WritePrinter") = 0 /\ Count("EndPagePrinter") = 0
  /\ (Returned /\ Succeeded("StartDocPrinterW") /\ FailedCall("StartPagePrinter")) =>
        /\ Ops = <<"OpenPrinterW", "StartDocPrinterW", "StartPagePrinter",
                   "EndDocPrinter", "ClosePrinter">>
        /\ result = "StartPagePrinter failed"

\* C6 witness: the session returned the StartPagePrinter failure
C6_Witness ==
  /\ Returned
  /\ Succeeded("StartDocPrinterW")
  /\ FailedCall("StartPagePrinter")
  /\ result = "StartPagePrinter failed"
  /\ Ops[Len(Ops)] = "ClosePrinter"

\* every call of the log succeeded and the write accepted the whole buffer
AllCallsSucceeded ==
  /\ calls # <<>>
  /\ \A i \in DOMAIN calls : calls[i].ok
  /\ ~PartialWrite

\* C7: for a non-empty payload, when every spooler call succeeds and all
\* bytes are accepted, the session makes exactly the calls OpenPrinterW,
\* StartDocPrinterW with data type RAW, StartPagePrinter, one WritePrinter of
\* the whole unmodified payload, EndPagePrinter, EndDocPrinter, ClosePrinter,
\* in that order, all on the opened handle, and returns success.
C7_SuccessSequence ==
  (Returned /\ data # <<>> /\ AllCallsSucceeded) =>
      /\ Ops = <<"OpenPrinterW", "StartDocPrinterW", "StartPagePrinter",
                 "WritePrinter", "EndPagePrinter", "EndDocPrinter",
                 "ClosePrinter">>
      /\ calls[1].name = UTF16Encode(printerName) \o <<0>>
      /\ calls[2].dt = "RAW"
      /\ calls[4].buf = data
      /\ calls[4].written = Len(data)
      /\ \A i \in 2 .. 7 : calls[i].h = hPrinter
      /\ result = "nil"

\* C7 witness: the payload {0x1B, 0x40} was printed successfully
C7_Witness ==
  /\ Returned
  /\ data = <<27, 64>>
  /\ AllCallsSucceeded
  /\ Len(calls) = 7
  /\ result = "nil"

\* the cleanup calls the unwind owes, from the begin/open calls that succeeded
ExpectedUnwind ==
  (IF Succeeded("StartPagePrinter") THEN <<"EndPagePrinter">> ELSE <<>>) \o
  (IF Succeeded("StartDocPrinterW") THEN <<"EndDocPrinter">> ELSE <<>>) \o
  (IF Succeeded("OpenPrinterW") THEN <<"ClosePrinter">> ELSE <<>>)

IsCleanup(op) == op \in Cleanup

\* C8: on every exit path the cleanup calls run in strict reverse order of
\* the begin/open calls that succeeded: EndPagePrinter (if StartPagePrinter
\* succeeded) before EndDocPrinter (if StartDocPrinterW succeeded) before
\* ClosePrinter; no forward call follows a cleanup call, and ClosePrinter is
\* the last spooler call of the session.
C8_ReverseOrderUnwind ==
  /\ \A i, j \in DOMAIN calls :
        (i < j /\ calls[i].op \in Cleanup) =>
            /\ calls[j].op \in Cleanup
            /\ calls[i].op # "ClosePrinter"
            /\ calls[i].op = "EndDocPrinter" => calls[j].op = "ClosePrinter"
  /\ Returned => SelectSeq(Ops, IsCleanup) = ExpectedUnwind
  /\ (Returned /\ Succeeded("OpenPrinterW")) => Ops[Len(Ops)] = "ClosePrinter"

\* C8 witness: a full unwind in which EndPagePrinter itself failed
C8_Witness ==
  /\ Returned
  /\ FailedCall("EndPagePrinter")
  /\ SelectSeq(Ops, IsCleanup) =
        <<"EndPagePrinter", "EndDocPrinter", "ClosePrinter">>

\* C9 (as stated): on every code path the number of OpenPrinterW calls made
\* equals the number of ClosePrinter calls made when the session returns.
C9_OpenCallsEqualCloseCalls ==
  Returned => Count("OpenPrinterW") = Count("ClosePrinter")

\* C9 (amended): on every code path the number of OpenPrinterW calls that
\* succeeded equals the number of ClosePrinter calls made when the session
\* returns; a failed OpenPrinterW is followed by no ClosePrinter.
C9_SuccessfulOpensEqualCloseCalls ==
  Returned =>
     Cardinality({ i \in Made("OpenPrinterW") : calls[i].ok }) = Count("ClosePrinter")

\* C9 witness: the session returned after OpenPrinterW failed
C9_Witness ==
  /\ Returned
  /\ FailedCall("OpenPrinterW")
  /\ Count("ClosePrinter") = 0
  /\ result = "OpenPrinterW failed"

\* cleanup calls of the log that failed
CleanupFailures == { i \in DOMAIN calls : calls[i].op \in Cleanup /\ ~calls[i].ok }

\* C10: a failure of EndPagePrinter, EndDocPrinter or ClosePrinter that
\* occurs when no earlier stage has failed is returned to the caller as an
\* error tagged with that stage; the session does not report success.
C10_CleanupFailureSurfaced ==
  (Returned /\ Failures = {} /\ CleanupFailures # {}) =>
      /\ result # "nil"
      /\ \E i \in CleanupFailures : result = calls[i].op \o " failed"


\* the forward stage that must have succeeded before stage op is called
StageBefore(op) ==
  CASE op = "StartDocPrinterW" -> "OpenPrinterW"
    [] op = "StartPagePrinter" -> "StartDocPrinterW"
    [] op = "WritePrinter" -> "StartPagePrinter"
    [] OTHER -> ""

\* C22: a forward stage is called only if every earlier forward stage
\* succeeded: StartDocPrinterW only after a successful OpenPrinterW,
\* StartPagePrinter only after a successful StartDocPrinterW, WritePrinter
\* only after a successful StartPagePrinter; after the first failing stage
\* no forward stage is called, and the returned error names that stage.
C22_ForwardOnlyAfterSuccess ==
  /\ \A i \in DOMAIN calls :
        StageBefore(calls[i].op) # "" =>
            \E j \in 1 .. i - 1 :
               calls[j].op = StageBefore(calls[i].op) /\ calls[j].ok
  /\ \A i, j \in DOMAIN calls :
        (i \in Failures /\ i < j) => calls[j].op \notin Forward
  /\ (Returned /\ Failures # {}) =>
        /\ Cardinality(Failures) = 1
        /\ result = (IF PartialWrite THEN "incomplete write"
                     ELSE calls[FirstFailure].op \o " failed")

\* C22 witness: StartDocPrinterW failed, no later forward stage was called
\* and the error names StartDocPrinterW
C22_Witness ==
  /\ Returned
  /\ FailedCall("StartDocPrinterW")
  /\ Count("StartPagePrinter") = 0
  /\ Count("WritePrinter") = 0
  /\ result = "StartDocPrinterW failed"

\* C26: called with an empty payload the native session returns an error
\* without any spooler call; on a platform other than windows the entry
\* point always returns an error and makes no spooler call.
C26_EmptyPayloadAndStub ==
  /\ data = <<>> => calls = <<>>
  /\ goos # "windows" => calls = <<>>
  /\ (Returned /\ goos = "windows" /\ data = <<>>) => result = "no data to print"
  /\ (Returned /\ goos # "windows") =>
        result = "Win32 Print Spooler API only available on Windows"

\* C26 witness: an empty payload was refused on windows
C26_Witness ==
  /\ Returned
  /\ goos = "windows"
  /\ data = <<>>
  /\ printerName = <<82, 80>>
  /\ result = "no data to print"
  /\ calls = <<>>

\* ======================================================================
\* Part 2: message handlers, dispatcher and backends (websocket.go)
\* ======================================================================

\* ------------------------------------------------------------ environment
\* one execution of an external command: what ran, what it was given to
\* print (stdin or the content of the file it was pointed at), how it ended
Exec(cmd, args, input, cause, output) ==
  [cmd |-> cmd, args |-> args, input |-> input, cause |-> cause,
   output |-> output, ok |-> (cause = "")]

\* how an `lp` process may end: cause is the error of CombinedOutput
\* ("" = exit status 0), output its combined stdout and stderr
LpOutcomes ==
  { [cause |-> "", output |-> "request id is 1"],
    [cause |-> "", output |-> ""],
    [cause |-> "exit status 1", output |-> "lp: The printer or class does not exist."],
    [cause |-> "exit status 1", output |-> "lp: Unable to connect to scheduler"],
    [cause |-> "exec: lp: not found", output |-> ""] }

\* the queue accepts a job only for an installed printer, and reports a
\* missing printer only for one that is not installed
LpMay(name, o) ==
  /\ name \notin Installed => o.cause # ""
  /\ name \in Installed => o.output # "lp: The printer or class does not exist."

\* how notepad / cmd may end: cmd.Run() gives only the exit error
RunOutcomes == { [cause |-> ""], [cause |-> "exit status 1"] }

\* a command pointed at a file that does not exist cannot succeed
RunMay(content, o) == content = NoFile => o.cause # ""

\* messages a client may send
PrintMessages ==
  { [type |-> t, ok |-> k, printerName |-> n, content |-> d, jobId |-> j] :
      t \in {"print", "print_raw_escpos"}, k \in {TRUE}, n \in JobPrinters,
      d \in Contents, j \in JobIds }

\* a print message whose payload json.Unmarshal rejects
BadPrintMessages ==
  { [NoMsg EXCEPT !.type = t] : t \in {"print", "print_raw_escpos"} }

\* "ping" stands for every type the switch of handleMessage has no case for
OtherMessages ==
  { [NoMsg EXCEPT !.type = t, !.ok = TRUE] :
      t \in {"print_escpos", "get_printers", "ping"} }

Messages == PrintMessages \cup BadPrintMessages \cup OtherMessages

\* ------------------------------------------------------------- responses
Response(type, jobId, text, err) ==
  [type |-> type, jobId |-> jobId, text |-> text, err |-> err]

\* c.sendError(message): one "error" message is written
sendError(text, err) == Response("error", "", text, err)

\* ---------------------------------------------------- backend arguments
\* exec.Command("lp", "-d", printerName)
printUnixArgs(name) == <<"-d", name>>

\* exec.Command("lp", "-d", printerName, "-o", "raw")
printEscPosUnixArgs_NoRaw(name) == <<"-d", name>>
printEscPosUnixArgs(name) == <<"-d", name, "-o", "raw">>

\* exec.Command("notepad", "/p", tempFile): printerName is not passed
printWindowsArgs(name) == <<"/p", textTempFile>>

\* exec.Command("cmd", "/c", "copy", "/b", tempFile, printerName)
printEscPosWindowsArgs(name) == <<"/c", "copy", "/b", rawTempFile, name>>

\* fmt.Errorf("print failed: %v, output: %s", err, string(output))
QueueError_NoOutput(text, cause, output) == Err(text, cause, "")
QueueError(text, cause, output) == Err(text, cause, output)

\* ------------------------------------------------------------- handlers
SetConn(f, c, v) == [f EXCEPT ![c] = v]

\* readPump: ReadJSON delivered message m; handleMessage switches on its type
ReadMessage(c, m) ==
  /\ cpc[c] = "read"
  /\ cpc' = SetConn(cpc, c, "handleMessage")
  /\ msg' = SetConn(msg, c, m)
  /\ route' = SetConn(route, c, "")
  /\ perr' = SetConn(perr, c, NilErr)
  /\ execs' = SetConn(execs, c, <<>>)
  /\ ndispatch' = SetConn(ndispatch, c, 0)
  /\ responses' = SetConn(responses, c, <<>>)
  /\ enumOut' = SetConn(enumOut, c, <<>>)
  /\ printers' = SetConn(printers, c, <<>>)
  /\ UNCHANGED << goos, fs >>
  /\ UNCHANGED spoolVars
  /\ UNCHANGED connVars

\* handlePrint up to the call of printer.PrintText
handlePrint(c) ==
  /\ cpc[c] = "handleMessage"
  /\ msg[c].type = "print"
  /\ IF ~msg[c].ok
     THEN /\ responses' = SetConn(responses, c,
                Append(responses[c], sendError("Invalid print job format", NilErr)))
          /\ cpc' = SetConn(cpc, c, "read")
          /\ ndispatch' = ndispatch
     ELSE /\ responses' = responses
          /\ cpc' = SetConn(cpc, c, "PrintText")
          /\ ndispatch' = SetConn(ndispatch, c, ndispatch[c] + 1)
  /\ UNCHANGED << goos, fs, msg, route, perr, execs, enumOut, printers >>
  /\ UNCHANGED spoolVars
  /\ UNCHANGED connVars

\* mutation of handlePrintRawEscPos: the error of json.Unmarshal is ignored
handlePrintRawEscPos_DecodeUnchecked(c) ==
  /\ cpc[c] = "handleMessage"
  /\ msg[c].type = "print_raw_escpos"
  /\ responses' = responses
  /\ cpc' = SetConn(cpc, c, "PrintEscPos")
  /\ ndispatch' = SetConn(ndispatch, c, ndispatch[c] + 1)
  /\ UNCHANGED << goos, fs, msg, route, perr, execs, enumOut, printers >>
  /\ UNCHANGED spoolVars
  /\ UNCHANGED connVars

\* handlePrintRawEscPos up to the call of printer.PrintEscPos
handlePrintRawEscPos(c) ==
  /\ cpc[c] = "handleMessage"
  /\ msg[c].type = "print_raw_escpos"
  /\ IF ~msg[c].ok
     THEN /\ responses' = SetConn(responses, c,
                Append(responses[c], sendError("Invalid raw ESC/POS print job format", NilErr)))
          /\ cpc' = SetConn(cpc, c, "read")
          /\ ndispatch' = ndispatch
     ELSE /\ responses' = responses
          /\ cpc' = SetConn(cpc, c, "PrintEscPos")
          /\ ndispatch' = SetConn(ndispatch, c, ndispatch[c] + 1)
  /\ UNCHANGED << goos, fs, msg, route, perr, execs, enumOut, printers >>
  /\ UNCHANGED spoolVars
  /\ UNCHANGED connVars

\* handlePrintEscPos: the deprecated endpoint only answers with an error
handlePrintEscPos(c) ==
  /\ cpc[c] = "handleMessage"
  /\ msg[c].type = "print_escpos"
  /\ responses' = SetConn(responses, c,
        Append(responses[c], sendError("This endpoint is deprecated", NilErr)))
  /\ cpc' = SetConn(cpc, c, "read")
  /\ UNCHANGED << goos, fs, msg, route, perr, execs, ndispatch, enumOut, printers >>
  /\ UNCHANGED spoolVars
  /\ UNCHANGED connVars

\* mutation of handlePrint: the error of PrintText is not looked at
handlePrint_Reply_AlwaysSuccess(c) ==
  /\ cpc[c] = "reply"
  /\ msg[c].type = "print"
  /\ responses' = SetConn(responses, c, Append(responses[c],
        Response("print_success", msg[c].jobId, "", NilErr)))
  /\ cpc' = SetConn(cpc, c, "read")
  /\ UNCHANGED << goos, fs, msg, route, perr, execs, ndispatch, enumOut, printers >>
  /\ UNCHANGED spoolVars
  /\ UNCHANGED connVars

\* handlePrint after PrintText returned
handlePrint_Reply(c) ==
  /\ cpc[c] = "reply"
  /\ msg[c].type = "print"
  /\ responses' = SetConn(responses, c, Append(responses[c],
        IF perr[c] # NilErr
        THEN sendError("Print failed: ", perr[c])
        ELSE Response("print_success", msg[c].jobId, "", NilErr)))
  /\ cpc' = SetConn(cpc, c, "read")
  /\ UNCHANGED << goos, fs, msg, route, perr, execs, ndispatch, enumOut, printers >>
  /\ UNCHANGED spoolVars
  /\ UNCHANGED connVars

\* mutation of handlePrintRawEscPos: the response is queued on c.send for
\* writePump instead of being written by the reading goroutine
handlePrintRawEscPos_Reply_Enqueue(c) ==
  /\ cpc[c] = "reply"
  /\ msg[c].type = "print_raw_escpos"
  /\ send' = SetConn(send, c, [send[c] EXCEPT !.q = Append(@,
        IF perr[c] # NilErr
        THEN sendError("Raw ESC/POS print failed: ", perr[c])
        ELSE Response("raw_escpos_print_success", msg[c].jobId, "", NilErr))])
  /\ cpc' = SetConn(cpc, c, "read")
  /\ UNCHANGED << goos, fs, msg, route, perr, execs, ndispatch, responses,
                  enumOut, printers, wpump >>
  /\ UNCHANGED spoolVars

\* handlePrintRawEscPos after PrintEscPos returned
handlePrintRawEscPos_Reply(c) ==
  /\ cpc[c] = "reply"
  /\ msg[c].type = "print_raw_escpos"
  /\ responses' = SetConn(responses, c, Append(responses[c],
        IF perr[c] # NilErr
        THEN sendError("Raw ESC/POS print failed: ", perr[c])
        ELSE Response("raw_escpos_print_success", msg[c].jobId, "", NilErr)))
  /\ cpc' = SetConn(cpc, c, "read")
  /\ UNCHANGED << goos, fs, msg, route, perr, execs, ndispatch, enumOut, printers >>
  /\ UNCHANGED spoolVars
  /\ UNCHANGED connVars

\* ------------------------------------------------------------ dispatcher
\* the switch on runtime.GOOS in PrintText ("" = the default branch)
TextBackend_DefaultUnix(os) ==
  IF os = "windows" THEN "printWindows" ELSE "printUnix"
TextBackend(os) ==
  IF os = "windows" THEN "printWindows"
  ELSE IF os \in {"darwin", "linux"} THEN "printUnix"
  ELSE ""

\* the switch on runtime.GOOS in PrintEscPos
RawBackend(os) ==
  IF os = "windows" THEN "printEscPosWindows"
  ELSE IF os \in {"darwin", "linux"} THEN "printEscPosUnix"
  ELSE ""

\* mutation of PrintText: the printer name is looked up before submission
PrintText_RejectUnknown(c) ==
  /\ cpc[c] = "PrintText"
  /\ IF msg[c].printerName \notin Installed
     THEN /\ perr' = SetConn(perr, c, Err("printer not found", "", ""))
          /\ cpc' = SetConn(cpc, c, "reply")
          /\ route' = route
     ELSE IF TextBackend(goos) = ""
     THEN /\ perr' = SetConn(perr, c, Err("unsupported platform", "", ""))
          /\ cpc' = SetConn(cpc, c, "reply")
          /\ route' = route
     ELSE /\ perr' = perr
          /\ cpc' = SetConn(cpc, c, TextBackend(goos))
          /\ route' = SetConn(route, c, TextBackend(goos))
  /\ UNCHANGED << goos, fs, msg, execs, ndispatch, responses, enumOut, printers >>
  /\ UNCHANGED spoolVars
  /\ UNCHANGED connVars

\* PrintText(printerName, content)
PrintText(c) ==
  /\ cpc[c] = "PrintText"
  /\ IF TextBackend(goos) = ""
     THEN /\ perr' = SetConn(perr, c, Err("unsupported platform", "", ""))
          /\ cpc' = SetConn(cpc, c, "reply")
          /\ route' = route
     ELSE /\ perr' = perr
          /\ cpc' = SetConn(cpc, c, TextBackend(goos))
          /\ route' = SetConn(route, c, TextBackend(goos))
  /\ UNCHANGED << goos, fs, msg, execs, ndispatch, responses, enumOut, printers >>
  /\ UNCHANGED spoolVars
  /\ UNCHANGED connVars

\* PrintEscPos(printerName, escPosData)
PrintEscPos(c) ==
  /\ cpc[c] = "PrintEscPos"
  /\ IF RawBackend(goos) = ""
     THEN /\ perr' = SetConn(perr, c, Err("unsupported platform", "", ""))
          /\ cpc' = SetConn(cpc, c, "reply")
          /\ route' = route
     ELSE /\ perr' = perr
          /\ cpc' = SetConn(cpc, c, RawBackend(goos))
          /\ route' = SetConn(route, c, RawBackend(goos))
  /\ UNCHANGED << goos, fs, msg, execs, ndispatch, responses, enumOut, printers >>
  /\ UNCHANGED spoolVars
  /\ UNCHANGED connVars

\* ------------------------------------------------------- windows backends
\* os.WriteFile(tempFile, []byte(content), 0644) in backend `fn`
WriteTempFile(c, fn, file, ok) ==
  /\ IF ok
     THEN /\ fs' = [fs EXCEPT ![file] = msg[c].content]
          /\ perr' = perr
          /\ cpc' = SetConn(cpc, c, fn \o ".run")
     ELSE /\ fs' = fs
          /\ perr' = SetConn(perr, c, Err("", "open " \o file \o ": access denied", ""))
          /\ cpc' = SetConn(cpc, c, "reply")
  /\ UNCHANGED << goos, msg, route, execs, ndispatch, responses, enumOut, printers >>
  /\ UNCHANGED spoolVars
  /\ UNCHANGED connVars

\* cmd.Run(): the command prints what the file holds when it runs
RunOnTempFile(c, fn, file, cmd, args, o) ==
  /\ RunMay(fs[file], o)
  /\ execs' = SetConn(execs, c,
        Append(execs[c], Exec(cmd, args, fs[file], o.cause, "")))
  /\ perr' = SetConn(perr, c, IF o.cause = "" THEN NilErr ELSE Err("", o.cause, ""))
  /\ cpc' = SetConn(cpc, c, fn \o ".remove")
  /\ UNCHANGED << goos, fs, msg, route, ndispatch, responses, enumOut, printers >>
  /\ UNCHANGED spoolVars
  /\ UNCHANGED connVars

\* defer os.Remove(tempFile), run when the backend returns
RemoveTempFile(c, fn, file) ==
  /\ fs' = [fs EXCEPT ![file] = NoFile]
  /\ cpc' = SetConn(cpc, c, "reply")
  /\ UNCHANGED << goos, msg, route, perr, execs, ndispatch, responses, enumOut, printers >>
  /\ UNCHANGED spoolVars
  /\ UNCHANGED connVars

printWindows_WriteFile(c, ok) ==
  /\ cpc[c] = "printWindows"
  /\ WriteTempFile(c, "printWindows", textTempFile, ok)

printWindows_Run(c, o) ==
  /\ cpc[c] = "printWindows.run"
  /\ RunOnTempFile(c, "printWindows", textTempFile, "notepad",
                   printWindowsArgs(msg[c].printerName), o)

printWindows_Remove(c) ==
  /\ cpc[c] = "printWindows.remove"
  /\ RemoveTempFile(c, "printWindows", textTempFile)

printEscPosWindows_WriteFile(c, ok) ==
  /\ cpc[c] = "printEscPosWindows"
  /\ WriteTempFile(c, "printEscPosWindows", rawTempFile, ok)

printEscPosWindows_Run(c, o) ==
  /\ cpc[c] = "printEscPosWindows.run"
  /\ RunOnTempFile(c, "printEscPosWindows", rawTempFile, "cmd",
                   printEscPosWindowsArgs(msg[c].printerName), o)

printEscPosWindows_Remove(c) ==
  /\ cpc[c] = "printEscPosWindows.remove"
  /\ RemoveTempFile(c, "printEscPosWindows", rawTempFile)

\* ---------------------------------------------------------- unix backends
\* mutation of printUnix: a failed submission is tried again
printUnix_Retry(c, o) ==
  /\ cpc[c] = "printUnix"
  /\ LpMay(msg[c].printerName, o)
  /\ execs' = SetConn(execs, c, Append(execs[c],
        Exec("lp", printUnixArgs(msg[c].printerName), msg[c].content,
             o.cause, o.output)))
  /\ IF o.cause # ""
     THEN /\ perr' = SetConn(perr, c, QueueError("print failed", o.cause, o.output))
          /\ cpc' = cpc
     ELSE /\ perr' = SetConn(perr, c, NilErr)
          /\ cpc' = SetConn(cpc, c, "reply")
  /\ UNCHANGED << goos, fs, msg, route, ndispatch, responses, enumOut, printers >>
  /\ UNCHANGED spoolVars
  /\ UNCHANGED connVars

\* printUnix: lp -d printerName, content on stdin, CombinedOutput
printUnix(c, o) ==
  /\ cpc[c] = "printUnix"
  /\ LpMay(msg[c].printerName, o)
  /\ execs' = SetConn(execs, c, Append(execs[c],
        Exec("lp", printUnixArgs(msg[c].printerName), msg[c].content,
             o.cause, o.output)))
  /\ perr' = SetConn(perr, c,
        IF o.cause # "" THEN QueueError("print failed", o.cause, o.output)
        ELSE NilErr)
  /\ cpc' = SetConn(cpc, c, "reply")
  /\ UNCHANGED << goos, fs, msg, route, ndispatch, responses, enumOut, printers >>
  /\ UNCHANGED spoolVars
  /\ UNCHANGED connVars

\* printEscPosUnix: lp -d printerName -o raw, data on stdin, CombinedOutput
printEscPosUnix(c, o) ==
  /\ cpc[c] = "printEscPosUnix"
  /\ LpMay(msg[c].printerName, o)
  /\ execs' = SetConn(execs, c, Append(execs[c],
        Exec("lp", printEscPosUnixArgs(msg[c].printerName), msg[c].content,
             o.cause, o.output)))
  /\ perr' = SetConn(perr, c,
        IF o.cause # "" THEN QueueError("escpos print failed", o.cause, o.output)
        ELSE NilErr)
  /\ cpc' = SetConn(cpc, c, "reply")
  /\ UNCHANGED << goos, fs, msg, route, ndispatch, responses, enumOut, printers >>
  /\ UNCHANGED spoolVars
  /\ UNCHANGED connVars

\* ------------------------------------------------------ printer directory
\* longest `lpstat -a` output, in characters
MaxOut == 4
\* most printers in one powershell answer
MaxPrinters == 2

\* characters of an lpstat output: 'p', '1', space, newline
LpstatChars == {112, 49, 32, 10}

RECURSIVE SeqsOver(_, _)
SeqsOver(S, n) ==
  IF n = 0 THEN { <<>> }
  ELSE LET R == SeqsOver(S, n - 1)
       IN  R \cup { Append(r, x) : r \in { t \in R : Len(t) = n - 1 }, x \in S }

LpstatOutputs == SeqsOver(LpstatChars, MaxOut)

\* unicode.IsSpace on the Latin-1 range
IsSpace(ch) == ch \in {9, 10, 11, 12, 13, 32, 133, 160}

\* strings.Split(s, "\n")
RECURSIVE SplitLines(_)
SplitLines(s) ==
  IF \A i \in DOMAIN s : s[i] # 10 THEN << s >>
  ELSE LET i == CHOOSE k \in DOMAIN s : s[k] = 10 /\ \A j \in 1 .. k - 1 : s[j] # 10
       IN  << SubSeq(s, 1, i - 1) >> \o SplitLines(SubSeq(s, i + 1, Len(s)))

\* strings.TrimSpace(s)
RECURSIVE TrimSpace(_)
TrimSpace(s) ==
  IF s = <<>> THEN s
  ELSE IF IsSpace(Head(s)) THEN TrimSpace(Tail(s))
  ELSE IF IsSpace(s[Len(s)]) THEN TrimSpace(SubSeq(s, 1, Len(s) - 1))
  ELSE s

\* strings.Fields(s): the maximal runs of non-space characters
RECURSIVE Fields(_)
Fields(s) ==
  IF s = <<>> THEN <<>>
  ELSE IF IsSpace(Head(s)) THEN Fields(Tail(s))
  ELSE LET n == IF \E k \in DOMAIN s : IsSpace(s[k])
                THEN (CHOOSE k \in DOMAIN s :
                        IsSpace(s[k]) /\ \A j \in 1 .. k - 1 : ~IsSpace(s[j])) - 1
                ELSE Len(s)
       IN  << SubSeq(s, 1, n) >> \o Fields(SubSeq(s, n + 1, Len(s)))

Printer(name, status, default) ==
  [Name |-> name, Status |-> status, Default |-> default]

\* the loop over the lines of `lpstat -a` in detectMacPrinters and
\* detectLinuxPrinters: one Printer, status "Ready", per non-blank line
RECURSIVE PrintersOfLines(_)
PrintersOfLines(lines) ==
  IF lines = <<>> THEN <<>>
  ELSE LET line == Head(lines)
           parts == Fields(line)
       IN  (IF TrimSpace(line) = <<>> THEN <<>>
            ELSE IF Len(parts) > 0 THEN << Printer(parts[1], "Ready", FALSE) >>
            ELSE <<>>)
           \o PrintersOfLines(Tail(lines))

ParseLpstat(output) == PrintersOfLines(SplitLines(output))

\* statusToString
statusToString_Passthrough(status) ==
  IF status \in {"3", "OK"} THEN "Ready"
  ELSE IF status = "4" THEN "Printing"
  ELSE IF status = "5" THEN "Warmup"
  ELSE status
statusToString(status) ==
  IF status \in {"3", "OK"} THEN "Ready"
  ELSE IF status = "4" THEN "Printing"
  ELSE IF status = "5" THEN "Warmup"
  ELSE "Unknown"

\* what powershell may print, as the JSON value json.Unmarshal sees:
\* an array of printer objects, one object, null, nothing, or other text
\* ("garbage": text that is not JSON, or JSON of another shape or type)
RawStatuses == {"3", "OK", "4", "5", "", "7"}
PsPrinters == [Name : {"HP LaserJet Pro", "Receipt Printer"},
               Default : BOOLEAN, Status : RawStatuses]
PsOutputs ==
  { [kind |-> "array", items |-> a] : a \in SeqsOver(PsPrinters, MaxPrinters) }
  \cup { [kind |-> "object", items |-> << o >>] : o \in PsPrinters }
  \cup { [kind |-> k, items |-> <<>>] : k \in {"null", "empty", "garbage"} }

\* json.Unmarshal(output, &psPrinters): a slice takes an array or null
UnmarshalArray(out) == out.kind \in {"array", "null"}
\* mutation: the single-object fallback never decodes
UnmarshalObject_Never(out) == FALSE
\* json.Unmarshal(output, &singlePrinter): a struct takes an object or null
UnmarshalObject(out) == out.kind \in {"object", "null"}

RECURSIVE ConvertPsPrinters(_)
ConvertPsPrinters(items) ==
  IF items = <<>> THEN <<>>
  ELSE << Printer(Head(items).Name, statusToString(Head(items).Status),
                  Head(items).Default) >> \o ConvertPsPrinters(Tail(items))

\* the parse of the powershell output in detectWindowsPrinters
ParsePowershell(out) ==
  IF ~UnmarshalArray(out)
  THEN IF UnmarshalObject(out) THEN ConvertPsPrinters(out.items) ELSE <<>>
  ELSE ConvertPsPrinters(out.items)

\* how an enumeration command may end: cmd.Output() gives stdout and an error
EnumErrors == {"exit status 1", "exec: executable file not found"}
LpstatOutcomes ==
  { [cause |-> "", out |-> o] : o \in LpstatOutputs }
  \cup { [cause |-> e, out |-> o] : e \in EnumErrors, o \in { <<>>, <<112>> } }
PsOutcomes ==
  { [cause |-> "", out |-> o] : o \in PsOutputs }
  \cup { [cause |-> e, out |-> o] : e \in EnumErrors,
            o \in { q \in PsOutputs : q.kind \in {"empty", "object"} } }

\* the switch on runtime.GOOS in DetectPrinters ("" = the default branch)
DetectBackend(os) ==
  IF os = "windows" THEN "detectWindowsPrinters"
  ELSE IF os = "darwin" THEN "detectMacPrinters"
  ELSE IF os = "linux" THEN "detectLinuxPrinters"
  ELSE ""

\* sendPrinters up to the call of printer.DetectPrinters
sendPrinters(c) ==
  /\ cpc[c] = "handleMessage"
  /\ msg[c].type = "get_printers"
  /\ cpc' = SetConn(cpc, c, "DetectPrinters")
  /\ UNCHANGED << goos, fs, msg, route, perr, execs, ndispatch, responses,
                  enumOut, printers >>
  /\ UNCHANGED spoolVars
  /\ UNCHANGED connVars

\* DetectPrinters()
DetectPrinters(c) ==
  /\ cpc[c] = "DetectPrinters"
  /\ IF DetectBackend(goos) = ""
     THEN /\ perr' = SetConn(perr, c, Err("unsupported platform", "", ""))
          /\ cpc' = SetConn(cpc, c, "sendPrinters.reply")
          /\ route' = route
     ELSE /\ perr' = perr
          /\ cpc' = SetConn(cpc, c, DetectBackend(goos))
          /\ route' = SetConn(route, c, DetectBackend(goos))
  /\ printers' = SetConn(printers, c, <<>>)
  /\ UNCHANGED << goos, fs, msg, execs, ndispatch, responses, enumOut >>
  /\ UNCHANGED spoolVars
  /\ UNCHANGED connVars

\* what an enumeration function returns: (printers, err); the output of a
\* command that failed is not parsed
EnumResult_ErrorOnEmpty(o, parsed) ==
  IF o.cause # ""
  THEN [printers |-> <<>>, err |-> Err("", o.cause, "")]
  ELSE IF parsed = <<>>
  THEN [printers |-> <<>>, err |-> Err("no printers found", "", "")]
  ELSE [printers |-> parsed, err |-> NilErr]
EnumResult(o, parsed) ==
  IF o.cause # ""
  THEN [printers |-> <<>>, err |-> Err("", o.cause, "")]
  ELSE [printers |-> parsed, err |-> NilErr]

\* an enumeration function: run the command, parse its output
Enumerate(c, cmd, args, o, parsed) ==
  /\ execs' = SetConn(execs, c, Append(execs[c], Exec(cmd, args, <<>>, o.cause, "")))
  /\ enumOut' = SetConn(enumOut, c, o.out)
  /\ printers' = SetConn(printers, c, EnumResult(o, parsed).printers)
  /\ perr' = SetConn(perr, c, EnumResult(o, parsed).err)
  /\ cpc' = SetConn(cpc, c, "sendPrinters.reply")
  /\ UNCHANGED << goos, fs, msg, route, ndispatch, responses >>
  /\ UNCHANGED spoolVars
  /\ UNCHANGED connVars

detectWindowsPrinters(c, o) ==
  /\ cpc[c] = "detectWindowsPrinters"
  /\ Enumerate(c, "powershell",
               <<"-Command", "Get-WmiObject -Class Win32_Printer">>, o,
               ParsePowershell(o.out))

detectMacPrinters(c, o) ==
  /\ cpc[c] = "detectMacPrinters"
  /\ Enumerate(c, "lpstat", <<"-a">>, o, ParseLpstat(o.out))

detectLinuxPrinters(c, o) ==
  /\ cpc[c] = "detectLinuxPrinters"
  /\ Enumerate(c, "lpstat", <<"-a">>, o, ParseLpstat(o.out))

\* sendPrinters after DetectPrinters returned
sendPrinters_Reply(c) ==
  /\ cpc[c] = "sendPrinters.reply"
  /\ responses' = SetConn(responses, c, Append(responses[c],
        IF perr[c] # NilErr THEN sendError("", perr[c])
        ELSE Response("printers_list", "", "", NilErr)))
  /\ cpc' = SetConn(cpc, c, "read")
  /\ UNCHANGED << goos, fs, msg, route, perr, execs, ndispatch, enumOut, printers >>
  /\ UNCHANGED spoolVars
  /\ UNCHANGED connVars

\* ------------------------------------------- the life of a connection
\* the types handleMessage has a case for
HandledTypes == {"get_printers", "print", "print_escpos", "print_raw_escpos"}

\* handleMessage: the switch has no default, another type is dropped
handleMessage(c) ==
  /\ cpc[c] = "handleMessage"
  /\ msg[c].type \notin HandledTypes
  /\ cpc' = SetConn(cpc, c, "read")
  /\ UNCHANGED << goos, fs, msg, route, perr, execs, ndispatch, responses,
                  enumOut, printers >>
  /\ UNCHANGED spoolVars
  /\ UNCHANGED connVars

\* readPump: ReadJSON returns an error (bad frame, client gone): break.
\* The iteration declared a fresh msg, no message is being handled.
readPump_Break(c) ==
  /\ cpc[c] = "read"
  /\ cpc' = SetConn(cpc, c, "readPump.return")
  /\ msg' = SetConn(msg, c, NoMsg)
  /\ route' = SetConn(route, c, "")
  /\ perr' = SetConn(perr, c, NilErr)
  /\ execs' = SetConn(execs, c, <<>>)
  /\ ndispatch' = SetConn(ndispatch, c, 0)
  /\ responses' = SetConn(responses, c, <<>>)
  /\ enumOut' = SetConn(enumOut, c, <<>>)
  /\ printers' = SetConn(printers, c, <<>>)
  /\ UNCHANGED << goos, fs >>
  /\ UNCHANGED spoolVars
  /\ UNCHANGED connVars

\* mutation of readPump: the channel is never closed
readPump_Close_Omitted(c) ==
  /\ cpc[c] = "readPump.return"
  /\ send' = send
  /\ cpc' = SetConn(cpc, c, "HandleWebSocket.return")
  /\ UNCHANGED << goos, fs, msg, route, perr, execs, ndispatch, responses,
                  enumOut, printers, wpump >>
  /\ UNCHANGED spoolVars

\* readPump returns: defer close(c.send)
readPump_Close(c) ==
  /\ cpc[c] = "readPump.return"
  /\ send' = SetConn(send, c, [send[c] EXCEPT !.closed = @ + 1])
  /\ cpc' = SetConn(cpc, c, "HandleWebSocket.return")
  /\ UNCHANGED << goos, fs, msg, route, perr, execs, ndispatch, responses,
                  enumOut, printers, wpump >>
  /\ UNCHANGED spoolVars

\* HandleWebSocket returns after readPump: defer conn.Close()
HandleWebSocket_Return(c) ==
  /\ cpc[c] = "HandleWebSocket.return"
  /\ cpc' = SetConn(cpc, c, "closed")
  /\ UNCHANGED << goos, fs, msg, route, perr, execs, ndispatch, responses,
                  enumOut, printers >>
  /\ UNCHANGED spoolVars
  /\ UNCHANGED connVars

\* writePump: for message := range c.send. The receive blocks while the
\* channel is open and empty; a queued message is written to the
\* connection (ok = WriteMessage returned nil, otherwise break); the loop
\* ends when the channel is closed and drained.
writePump(c, ok) ==
  /\ wpump[c].pc = "range"
  /\ send[c].q # <<>> \/ send[c].closed > 0
  /\ IF send[c].q # <<>>
     THEN /\ send' = SetConn(send, c, [send[c] EXCEPT !.q = Tail(@)])
          /\ wpump' = SetConn(wpump, c,
                [pc |-> IF ok THEN "range" ELSE "done",
                 wrote |-> wpump[c].wrote + 1])
     ELSE /\ send' = send
          /\ wpump' = SetConn(wpump, c, [wpump[c] EXCEPT !.pc = "done"])
  /\ UNCHANGED << goos, fs, cpc, msg, route, perr, execs, ndispatch, responses,
                  enumOut, printers >>
  /\ UNCHANGED spoolVars

\* the steps that are not the handling of a message
ConnNext(c) ==
  \/ handleMessage(c)
  \/ readPump_Break(c)
  \/ readPump_Close(c)
  \/ HandleWebSocket_Return(c)
  \/ \E ok \in BOOLEAN : writePump(c, ok)

\* --------------------------------------------------------- specifications
ServiceInit ==
  /\ SpoolInit
  /\ goos \in GOOS
  /\ ServiceIdle

\* the steps by which connection c handles a print or raw print message
PrintNext(c) ==
  \/ handlePrint(c)
  \/ handlePrintRawEscPos(c)
  \/ PrintText(c)
  \/ PrintEscPos(c)
  \/ \E ok \in BOOLEAN : printWindows_WriteFile(c, ok)
  \/ \E o \in RunOutcomes : printWindows_Run(c, o)
  \/ printWindows_Remove(c)
  \/ \E ok \in BOOLEAN : printEscPosWindows_WriteFile(c, ok)
  \/ \E o \in RunOutcomes : printEscPosWindows_Run(c, o)
  \/ printEscPosWindows_Remove(c)
  \/ \E o \in LpOutcomes : printUnix(c, o)
  \/ \E o \in LpOutcomes : printEscPosUnix(c, o)
  \/ handlePrint_Reply(c)
  \/ handlePrintRawEscPos_Reply(c)

\* the steps by which connection c handles the other messages
OtherNext(c) ==
  \/ handlePrintEscPos(c)
  \/ sendPrinters(c)
  \/ DetectPrinters(c)
  \/ \E o \in PsOutcomes : detectWindowsPrinters(c, o)
  \/ \E o \in LpstatOutcomes : detectMacPrinters(c, o)
  \/ \E o \in LpstatOutcomes : detectLinuxPrinters(c, o)
  \/ sendPrinters_Reply(c)

\* one connection, every message type, every platform
ServiceNext ==
  \/ \E m \in Messages : ReadMessage(1, m)
  \/ PrintNext(1)
  \/ OtherNext(1)
  \/ ConnNext(1)

ServiceSpec == ServiceInit /\ [][ServiceNext]_vars

\* the Go scheduler runs every goroutine that can take a step: the deferred
\* calls of a returning readPump and HandleWebSocket, and a writePump whose
\* receive is ready, are not postponed forever
ServiceLiveSpec ==
  /\ ServiceSpec
  /\ WF_vars(readPump_Close(1))
  /\ WF_vars(HandleWebSocket_Return(1))
  /\ WF_vars(\E ok \in BOOLEAN : writePump(1, ok))

\* the jobs connection c submits in the concurrent runs: its own job id,
\* an installed printer, either kind, either payload
ConcurrentMessages(c) ==
  { m \in PrintMessages :
      /\ m.printerName \in Installed
      /\ m.jobId = (IF c = 1 THEN "job-1" ELSE "job-2") }

\* two connections that print at the same time
ConcurrentNext ==
  \E c \in Conns :
    \/ \E m \in ConcurrentMessages(c) : ReadMessage(c, m)
    \/ PrintNext(c)

ConcurrentSpec == ServiceInit /\ [][ConcurrentNext]_vars

\* ----------------------------------------------- reading a connection
PrintTypes == {"print", "print_raw_escpos"}

\* the dispatcher was called for the current message of c and has returned
Dispatched(c) == ndispatch[c] > 0 /\ cpc[c] \in {"reply", "read"}

\* DetectPrinters was called for the current message of c and has returned
Detected(c) ==
  /\ msg[c].type = "get_printers"
  /\ cpc[c] \in {"sendPrinters.reply", "read"}

\* the printer an external command prints on ("" = none named: the default)
TargetOf(e) ==
  IF e.cmd = "lp" THEN e.args[2]
  ELSE IF e.cmd = "cmd" THEN e.args[Len(e.args)]
  ELSE ""

EnumCommands == {"lpstat", "powershell"}

\* ------------------------------------------------------------------ claims

\* C11: on windows every raw job submitted through PrintEscPos is delivered
\* by the handle-based native spool session (PrintRawESCPOSWindows), not by
\* a temporary file and the copy command; on darwin and linux it is
\* delivered by the queued raw submission (printEscPosUnix).
C11_RawJobsUseNativeSession ==
  \A c \in Conns :
    (msg[c].type = "print_raw_escpos" /\ Dispatched(c)) =>
        /\ goos = "windows" =>
              /\ route[c] = "PrintRawESCPOSWindows"
              /\ \A i \in DOMAIN execs[c] : execs[c][i].cmd # "cmd"
              /\ fs[rawTempFile] = NoFile
        /\ goos \in Unix => route[c] = "printEscPosUnix"

\* C12: for any interleaving of two submissions on two connections, each
\* submission delivers exactly its own payload: what a backend command of a
\* connection prints is the payload of that connection's job.
C12_OwnPayloadDelivered ==
  \A c \in Conns : \A i \in DOMAIN execs[c] :
      execs[c][i].input = msg[c].content

\* C13: on every supported platform a text job submitted through PrintText
\* results in exactly one text submission, whose target is the job's
\* printerName and whose content is the job's payload unchanged; success is
\* reported only when that submission succeeded.
C13_TextSubmission ==
  \A c \in Conns :
    (msg[c].type = "print" /\ Dispatched(c) /\ goos \in Supported) =>
        /\ Len(execs[c]) = 1
        /\ TargetOf(execs[c][1]) = msg[c].printerName
        /\ execs[c][1].input = msg[c].content
        /\ perr[c] = NilErr => execs[c][1].ok

\* C14: in the queued backend every raw submission (printEscPosUnix) passes
\* the raw option to lp and every text submission (printUnix) does not; both
\* run lp on the given printer name and differ only in that option.
C14_RawFlag ==
  \A c \in Conns : \A i \in DOMAIN execs[c] :
    LET e == execs[c][i] IN
      /\ route[c] = "printEscPosUnix" =>
            e.cmd = "lp" /\ e.args = <<"-d", msg[c].printerName, "-o", "raw">>
      /\ route[c] = "printUnix" =>
            e.cmd = "lp" /\ e.args = <<"-d", msg[c].printerName>>

\* C14 witness: a raw job was submitted to lp with the raw option
C14_Witness ==
  /\ route[1] = "printEscPosUnix"
  /\ Len(execs[1]) = 1
  /\ execs[1][1].args[4] = "raw"
  /\ execs[1][1].input = <<27, 64>>

\* C15: a queued submission (text or raw) returns an error if and only if
\* the lp process ended unsuccessfully, and that error carries the process's
\* combined output unmodified; after a successful run it returns nil.
C15_QueueFailure ==
  \A c \in Conns :
    (route[c] \in {"printUnix", "printEscPosUnix"} /\ Dispatched(c)) =>
        /\ Len(execs[c]) = 1
        /\ (perr[c] # NilErr) <=> ~execs[c][1].ok
        /\ ~execs[c][1].ok =>
              /\ perr[c].output = execs[c][1].output
              /\ perr[c].cause = execs[c][1].cause

\* C15 witness: lp failed with a diagnostic and the error carries it
C15_Witness ==
  /\ route[1] = "printUnix"
  /\ Dispatched(1)
  /\ execs[1][1].output = "lp: Unable to connect to scheduler"
  /\ perr[1].output = "lp: Unable to connect to scheduler"

\* C16: one inbound print message causes at most one dispatcher call, and one
\* dispatcher call starts at most one backend submission, whatever its
\* outcome: a failed submission is never followed by another one.
C16_AtMostOnce ==
  \A c \in Conns :
      /\ ndispatch[c] <= 1
      /\ Len(execs[c]) <= 1
      /\ Len(execs[c]) > ndispatch[c] => msg[c].type = "get_printers"

\* C16 witness: a submission failed and the error was reported to the client
C16_Witness ==
  /\ msg[1].type = "print"
  /\ cpc[1] = "read"
  /\ Len(execs[1]) = 1
  /\ ~execs[1][1].ok
  /\ Len(responses[1]) = 1
  /\ responses[1][1].type = "error"

\* C17: a job for a printer that is not installed is not rejected before
\* submission: the dispatcher runs no enumeration command, hands the job to
\* the platform's backend, and an error it returns is the backend's.
C17_NoEarlyRejection ==
  \A c \in Conns :
    msg[c].type \in PrintTypes =>
      /\ \A i \in DOMAIN execs[c] : execs[c][i].cmd \notin EnumCommands
      /\ (Dispatched(c) /\ goos \in Supported /\ msg[c].printerName \notin Installed) =>
            /\ route[c] \in {"printWindows", "printEscPosWindows",
                             "printUnix", "printEscPosUnix"}
            /\ perr[c] # NilErr =>
                  /\ perr[c].text \in {"", "print failed", "escpos print failed"}
                  /\ perr[c].cause # ""
            /\ goos \in Unix =>
                  /\ Len(execs[c]) = 1
                  /\ TargetOf(execs[c][1]) = msg[c].printerName
                  /\ perr[c].cause = execs[c][1].cause
                  /\ perr[c].output = execs[c][1].output

\* C17 witness: lp itself reported that the printer does not exist
C17_Witness ==
  /\ msg[1].type = "print"
  /\ msg[1].printerName = "Ghost"
  /\ Dispatched(1)
  /\ goos = "linux"
  /\ perr[1].output = "lp: The printer or class does not exist."

\* the status the directory owes for a raw windows status
ExpectedStatus(raw) ==
  CASE raw \in {"3", "OK"} -> "Ready"
    [] raw = "4" -> "Printing"
    [] raw = "5" -> "Warmup"
    [] OTHER -> "Unknown"

\* C18: every Printer returned by DetectPrinters has a status among Ready,
\* Printing, Warmup, Unknown; on windows the raw status "3" or "OK" gives
\* Ready, "4" Printing, "5" Warmup and any other value, the empty string
\* included, Unknown; on darwin and linux every printer is Ready.
C18_StatusNormalized ==
  \A c \in Conns :
    Detected(c) =>
      /\ \A i \in DOMAIN printers[c] :
            printers[c][i].Status \in {"Ready", "Printing", "Warmup", "Unknown"}
      /\ goos \in Unix =>
            \A i \in DOMAIN printers[c] : printers[c][i].Status = "Ready"
      /\ (goos = "windows" /\ perr[c] = NilErr /\ Len(execs[c]) = 1) =>
            \A i \in DOMAIN printers[c] :
                printers[c][i].Status = ExpectedStatus(enumOut[c].items[i].Status)

\* C18 witness: windows returned two printers, one with an empty raw status
\* (Unknown) and one warming up
C18_Witness ==
  /\ goos = "windows"
  /\ Detected(1)
  /\ Len(printers[1]) = 2
  /\ enumOut[1].items[1].Status = ""
  /\ printers[1][1].Status = "Unknown"
  /\ printers[1][2].Status = "Warmup"

\* the enumeration command ran successfully and listed no printer
ZeroPrinters(c) ==
  /\ Detected(c)
  /\ Len(execs[c]) = 1
  /\ execs[c][1].ok
  /\ IF goos = "windows"
     THEN enumOut[c].items = <<>>
     ELSE \A i \in DOMAIN enumOut[c] : IsSpace(enumOut[c][i])

\* C19: when the enumeration command succeeds and lists no printer,
\* DetectPrinters returns an empty sequence and no error, on every
\* supported platform.
C19_ZeroPrintersNoError ==
  \A c \in Conns :
    ZeroPrinters(c) => printers[c] = <<>> /\ perr[c] = NilErr

\* C19 witness: lpstat on linux printed only a newline
C19_Witness ==
  /\ goos = "linux"
  /\ ZeroPrinters(1)
  /\ Len(enumOut[1]) = 1
  /\ printers[1] = <<>>
  /\ cpc[1] = "read"
  /\ responses[1][1].type = "printers_list"

\* C20: on a platform without strategy DetectPrinters, PrintText and
\* PrintEscPos each return the unsupported-platform error without running
\* any enumeration command, external process or spooler call, and
\* DetectPrinters returns no printers; when the enumeration command itself
\* fails, DetectPrinters returns that error and no printers.
C20_UnsupportedAndEnumFailure ==
  \A c \in Conns :
    /\ goos \notin Supported =>
          /\ execs[c] = <<>>
          /\ route[c] = ""
          /\ calls = <<>>
          /\ \A f \in TempFiles : fs[f] = NoFile
          /\ printers[c] = <<>>
          /\ (Dispatched(c) \/ Detected(c)) =>
                perr[c] = Err("unsupported platform", "", "")
    /\ (Detected(c) /\ Len(execs[c]) = 1 /\ ~execs[c][1].ok) =>
          /\ perr[c] # NilErr
          /\ perr[c].cause = execs[c][1].cause
          /\ printers[c] = <<>>

\* C20 witness: PrintText returned the unsupported-platform error on freebsd
C20_Witness ==
  /\ goos = "freebsd"
  /\ msg[1].type = "print"
  /\ Dispatched(1)
  /\ perr[1].text = "unsupported platform"
  /\ execs[1] = <<>>

\* the success type of a print request
SuccessType(t) ==
  IF t = "print" THEN "print_success" ELSE "raw_escpos_print_success"

\* the message connection c handles is a well-formed print request
WellFormedPrint(c) == msg[c].type \in PrintTypes /\ msg[c].ok

\* C21: for a well-formed print or print_raw_escpos request exactly one
\* response is written, when its handler returns and not before: the
\* success message of the request's type carrying the request's own jobId
\* if and only if the dispatcher returned no error, otherwise an error
\* message; no success response follows a submission that failed.
C21_OneResponsePerPrint ==
  \A c \in Conns :
    WellFormedPrint(c) =>
      /\ Len(responses[c]) = (IF cpc[c] = "read" THEN 1 ELSE 0)
      /\ cpc[c] = "read" =>
            /\ ndispatch[c] = 1
            /\ perr[c] = NilErr <=>
                  /\ responses[c][1].type = SuccessType(msg[c].type)
                  /\ responses[c][1].jobId = msg[c].jobId
            /\ perr[c] # NilErr <=>
                  /\ responses[c][1].type = "error"
                  /\ responses[c][1].err = perr[c]
            /\ (\E i \in DOMAIN execs[c] : ~execs[c][i].ok) =>
                  responses[c][1].type = "error"

\* C21 witness: a text job was answered with print_success and its own id
C21_Witness ==
  /\ msg[1].type = "print"
  /\ msg[1].jobId = "job-2"
  /\ cpc[1] = "read"
  /\ perr[1] = NilErr
  /\ Len(execs[1]) = 1
  /\ responses[1] = << Response("print_success", "job-2", "", NilErr) >>

\* C23: when the read loop has ended the channel c.send is closed exactly
\* once and writePump terminates; HandleWebSocket returns too, so no
\* goroutine of the connection stays blocked; the channel is never closed
\* twice, and nothing is sent on it once it is closed.
C23_ChannelClosedWriterEnds ==
  /\ [](\A c \in Conns :
          /\ send[c].closed <= 1
          /\ send[c].closed = 1 <=>
                cpc[c] \in {"HandleWebSocket.return", "closed"}
          /\ wpump[c].pc = "done" => send[c].closed = 1)
  /\ [][\A c \in Conns :
          send[c].closed > 0 => Len(send'[c].q) <= Len(send[c].q)]_vars
  /\ (cpc[1] = "readPump.return") ~>
        (send[1].closed = 1 /\ wpump[1].pc = "done" /\ cpc[1] = "closed")

\* C23 witness: the connection is gone, its channel closed once, its
\* writePump ended without having written
C23_Witness ==
  /\ cpc[1] = "closed"
  /\ send[1] = [closed |-> 1, q |-> <<>>]
  /\ wpump[1] = [pc |-> "done", wrote |-> 0]

\* the message types whose handler answers
AnsweredTypes == HandledTypes

\* C24: on one connection a message is read only when the reading goroutine
\* is back in the read loop, after the handler of the message before has
\* written its response; the only writer of the connection is the reading
\* goroutine: nothing is ever queued on c.send and writePump never writes.
C24_OneAtATime ==
  /\ [](\A c \in Conns : send[c].q = <<>> /\ wpump[c].wrote = 0)
  /\ [](\A c \in Conns :
          (msg[c].type \in AnsweredTypes /\ cpc[c] # "read") =>
              responses[c] = <<>>)
  /\ [][\A c \in Conns :
          (cpc[c] # "handleMessage" /\ cpc'[c] = "handleMessage") =>
              /\ cpc[c] = "read"
              /\ msg[c].type \in AnsweredTypes => Len(responses[c]) = 1]_vars

\* C24 witness: the response to a raw job is written, the reader waits for
\* the next message, the writer has nothing to write
C24_Witness ==
  /\ msg[1].type = "print_raw_escpos"
  /\ msg[1].ok
  /\ cpc[1] = "read"
  /\ Len(responses[1]) = 1
  /\ send[1] = [closed |-> 0, q |-> <<>>]
  /\ wpump[1] = [pc |-> "range", wrote |-> 0]

\* the message connection c handles is refused without being dispatched
Refused(c) ==
  \/ msg[c].type \in PrintTypes /\ ~msg[c].ok
  \/ msg[c].type = "print_escpos"

\* C25: a print or print_raw_escpos message whose payload does not decode,
\* and every print_escpos message, gets exactly one error response, no
\* dispatcher call and no backend submission; afterwards the connection is
\* open and its reader is back in the read loop.
C25_RefusedWithoutDispatch ==
  \A c \in Conns :
    Refused(c) =>
      /\ ndispatch[c] = 0
      /\ route[c] = ""
      /\ execs[c] = <<>>
      /\ cpc[c] \in {"handleMessage", "read"}
      /\ send[c].closed = 0
      /\ wpump[c].pc = "range"
      /\ cpc[c] = "handleMessage" => responses[c] = <<>>
      /\ cpc[c] = "read" =>
            /\ Len(responses[c]) = 1
            /\ responses[c][1].type = "error"

\* C25 witness: a raw job that does not decode was answered with an error
C25_Witness ==
  /\ msg[1].type = "print_raw_escpos"
  /\ ~msg[1].ok
  /\ cpc[1] = "read"
  /\ responses[1] = << sendError("Invalid raw ESC/POS print job format", NilErr) >>
  /\ ndispatch[1] = 0

\* powershell ran successfully for the current message of c
PsSucceeded(c) ==
  /\ goos = "windows"
  /\ Detected(c)
  /\ Len(execs[c]) = 1
  /\ execs[c][1].cmd = "powershell"
  /\ execs[c][1].ok

\* C27: on windows, when powershell succeeds and its output decodes
\* neither as an array of printers nor as one printer, DetectPrinters
\* returns no printer and no error; when the output is one printer object
\* it returns exactly that one printer.
C27_UnparsedOutputAndSingleObject ==
  \A c \in Conns :
    PsSucceeded(c) =>
      /\ perr[c] = NilErr
      /\ enumOut[c].kind \in {"empty", "garbage"} => printers[c] = <<>>
      /\ enumOut[c].kind = "object" =>
            /\ Len(printers[c]) = 1
            /\ printers[c][1].Name = enumOut[c].items[1].Name
            /\ printers[c][1].Default = enumOut[c].items[1].Default
            /\ printers[c][1].Status = statusToString(enumOut[c].items[1].Status)
      /\ cpc[c] = "read" => responses[c][1].type = "printers_list"

\* C27 witness: powershell printed one object, one printer is listed
C27_Witness ==
  /\ PsSucceeded(1)
  /\ enumOut[1].kind = "object"
  /\ Len(printers[1]) = 1
  /\ printers[1][1].Name = "Receipt Printer"
  /\ cpc[1] = "read"

=============================================================================
